---------------------------- MODULE Spec2Model ----------------------------
(***************************************************************************)
(* Model of main.py: the subscription store (table subs, reached through   *)
(* one aiosqlite connection per call), the command handlers that write     *)
(* and read it, and notifier_loop, the scheduler that fetches the rates    *)
(* and sends them to the chats that are due.                               *)
(*                                                                         *)
(* Time is counted in clock steps.  A day of the model has HoursPerDay     *)
(* hours of MinutesPerHour minutes of TicksPerMinute steps: a scaled-down  *)
(* 24 x 60 x 60, wrapping at midnight as the wall clock does.              *)
(***************************************************************************)
EXTENDS Integers, Sequences, FiniteSets, TLC

\* ---- bounds ----
NUsers == 2
NChats == 2
NProcs == 2
HoursPerDay == 2
MinutesPerHour == 2
TicksPerMinute == 2
MaxWork == 2
NPrices == 1

Users == 1..NUsers
Chats == 1..NChats
\* the handler coroutines that may be in flight together (aiogram runs each
\* update's handler as its own task)
Procs == 1..NProcs
Prices == 1..NPrices
DayLen == HoursPerDay * MinutesPerHour * TicksPerMinute

\* a sleep shorter than a minute
SleepTime_short == TicksPerMinute - 1

\* asyncio.sleep(60): one minute of the clock
SleepTime == TicksPerMinute

\* ---- strings ----
\* A Python str is a sequence of one-character strings.
DigitChar == <<"0", "1", "2", "3", "4", "5", "6", "7", "8", "9">>
Digits == {DigitChar[i] : i \in 1..10}

\* None / SQL NULL in the column daily_time
Null == <<>>

\* f"{n:02d}" for 0 <= n: at least two digits, zero padded
RECURSIVE DecStr(_)
DecStr(n) == IF n < 10 THEN <<DigitChar[n + 1]>>
             ELSE DecStr(n \div 10) \o <<DigitChar[(n % 10) + 1]>>

Fmt02d(n) == IF n < 10 THEN <<"0">> \o DecStr(n) ELSE DecStr(n)

\* str.isdigit(): non-empty and every character a digit
IsDigit(s) == Len(s) > 0 /\ \A i \in 1..Len(s) : s[i] \in Digits

DigitVal(c) == CHOOSE d \in 0..9 : DigitChar[d + 1] = c

\* int(s) for a digit string
RECURSIVE ParseInt(_)
ParseInt(s) == IF Len(s) = 0 THEN 0
               ELSE 10 * ParseInt(SubSeq(s, 1, Len(s) - 1)) + DigitVal(s[Len(s)])

\* f"{hh:02d}:{mm:02d}"
FmtHHMM(hh, mm) == Fmt02d(hh) \o <<":">> \o Fmt02d(mm)

\* ---- the clock ----
\* datetime.now(timezone.utc) read off the clock: .hour, .minute,
\* .strftime("%H:%M")
HourOf(t) == t \div (MinutesPerHour * TicksPerMinute)
MinuteOf(t) == (t \div TicksPerMinute) % MinutesPerHour
StrftimeHM(t) == FmtHHMM(HourOf(t), MinuteOf(t))

\* ---- table subs ----
\* A row of subs without the columns no statement reads (id, created_at).
\* The table is a bag of rows, row |-> number of copies: the schema has no
\* UNIQUE constraint, so nothing in the table itself forbids duplicates.
Kinds == {"hourly", "daily"}

Row(u, c, k, t) == [user_id |-> u, chat_id |-> c, kind |-> k, daily_time |-> t]

EmptyTable == [r \in {} |-> 0]

RECURSIVE SumOver(_, _)
SumOver(f, S) == IF S = {} THEN 0
                 ELSE LET x == CHOOSE y \in S : TRUE
                      IN f[x] + SumOver(f, S \ {x})

\* cur.rowcount of a DELETE: the rows of tbl that are not in rest
RowsRemoved(tbl, rest) == SumOver(tbl, DOMAIN tbl) - SumOver(rest, DOMAIN rest)

\* the number of rows of user u and kind k
CountKind(tbl, u, k) ==
    SumOver(tbl, {r \in DOMAIN tbl : r.user_id = u /\ r.kind = k})

\* the number of rows of user u
CountUser(tbl, u) == SumOver(tbl, {r \in DOMAIN tbl : r.user_id = u})

\* the DELETE left out of add_sub
DeleteKind_nothing(tbl, u, k) == tbl

\* the two DELETE branches of add_sub swapped
DeleteKind_other_kind(tbl, u, k) ==
    [r \in {x \in DOMAIN tbl : ~(x.user_id = u /\ x.kind # k)} |-> tbl[r]]

\* a DELETE that takes every subscription of the user
DeleteKind_both_kinds(tbl, u, k) ==
    [r \in {x \in DOMAIN tbl : x.user_id # u} |-> tbl[r]]

\* DELETE FROM subs WHERE user_id=? AND kind='hourly' (or kind='daily')
DeleteKind(tbl, u, k) ==
    [r \in {x \in DOMAIN tbl : ~(x.user_id = u /\ x.kind = k)} |-> tbl[r]]

\* remove_all_subs deleting the hourly rows only
DeleteUser_hourly_only(tbl, u) ==
    [r \in {x \in DOMAIN tbl : ~(x.user_id = u /\ x.kind = "hourly")} |-> tbl[r]]

\* DELETE FROM subs WHERE user_id=?
DeleteUser(tbl, u) ==
    [r \in {x \in DOMAIN tbl : x.user_id # u} |-> tbl[r]]

\* INSERT INTO subs(user_id, chat_id, kind, daily_time, created_at) VALUES(...)
InsertRow(tbl, row) ==
    [r \in DOMAIN tbl \cup {row} |->
        IF r = row THEN (IF row \in DOMAIN tbl THEN tbl[row] + 1 ELSE 1)
        ELSE tbl[r]]

\* ORDER BY kind DESC
KindLess_reversed(a, b) == a = "hourly" /\ b = "daily"

\* string comparison of the two values the column kind can hold (the CHECK
\* constraint of subs): 'daily' < 'hourly'
KindLess(a, b) == a = "daily" /\ b = "hourly"

\* ORDER BY kind: the rows S of tbl as a sequence, copies included, ascending
\* in kind
RECURSIVE OrderByKind(_, _)
OrderByKind(tbl, S) ==
    IF S = {} THEN <<>>
    ELSE LET x == CHOOSE y \in S : \A z \in S : ~KindLess(z.kind, y.kind)
         IN [i \in 1..tbl[x] |-> x] \o OrderByKind(tbl, S \ {x})

\* SELECT kind, daily_time FROM subs WHERE user_id=? ORDER BY kind, and the
\* list comprehension over the rows
SelectByUser(tbl, u) ==
    LET rows == OrderByKind(tbl, {r \in DOMAIN tbl : r.user_id = u})
    IN [i \in 1..Len(rows) |->
            [kind |-> rows[i].kind, daily_time |-> rows[i].daily_time]]

\* SELECT DISTINCT chat_id FROM subs WHERE kind='hourly'
HourlyChats(tbl) == {r.chat_id : r \in {x \in DOMAIN tbl : x.kind = "hourly"}}

\* the daily SELECT without its condition on daily_time
DailyChats_any_time(tbl, hhmm) ==
    {r.chat_id : r \in {x \in DOMAIN tbl : x.kind = "daily"}}

\* SELECT DISTINCT chat_id FROM subs WHERE kind='daily' AND daily_time=?
DailyChats(tbl, hhmm) ==
    {r.chat_id : r \in {x \in DOMAIN tbl : x.kind = "daily" /\ x.daily_time = hhmm}}

\* the chats that hold a subscription
ChatsOf(tbl) == {r.chat_id : r \in DOMAIN tbl}

\* ---- state ----
VARIABLES
    table,      \* the committed content of subs
    lock,       \* the connection holding SQLite's write lock, 0 when none
    sess,       \* per handler coroutine: where it is and what it holds
    clock,      \* the wall clock (UTC), in steps since midnight
    npc,        \* notifier_loop: where it is
    now_utc,    \* notifier_loop: datetime.now(timezone.utc) of this tick
    minute,     \* notifier_loop: now_utc.minute
    time_hhmm,  \* notifier_loop: now_utc.strftime("%H:%M")
    rates,      \* notifier_loop: the snapshot of this tick
    todo,       \* notifier_loop: the fetched rows still to be sent to
    error,      \* notifier_loop: the exception this tick ended with
    sleep_left, \* what is left of asyncio.sleep(60)
    late,       \* the time this tick took beyond its sleep
    prev_utc,   \* now_utc of the tick before this one, -1 when there is none
    outbox,     \* the calls of bot.send_message in this tick, in order
    seen        \* the chats that held a committed subscription at some
                \* moment since this tick started (none before the first tick)

loop_vars == <<npc, now_utc, minute, time_hhmm, rates, todo, error,
               sleep_left, late, prev_utc, outbox, seen>>

store_vars == <<table, lock, sess>>

vars == <<table, lock, sess, clock, loop_vars>>

\* A handler coroutine that is not running.
IdleSess == [pc |-> "idle", op |-> "none", user_id |-> 0, chat_id |-> 0,
             kind |-> "none", daily_time |-> Null, txn |-> EmptyTable,
             rowcount |-> 0, result |-> <<>>, error |-> "none"]

\* ---- command text ----
\* time_str.count(":")
RECURSIVE CountColons(_)
CountColons(s) == IF Len(s) = 0 THEN 0
                  ELSE (IF Head(s) = ":" THEN 1 ELSE 0) + CountColons(Tail(s))

\* the index of the first ":" of s (s holds one)
ColonAt(s) == CHOOSE i \in 1..Len(s) : s[i] = ":" /\ \A j \in 1..(i - 1) : s[j] # ":"

\* hh_str, mm_str = time_str.split(":") for a string with one colon
SplitHH(s) == SubSeq(s, 1, ColonAt(s) - 1)
SplitMM(s) == SubSeq(s, ColonAt(s) + 1, Len(s))

\* The texts a user sends after /subscribe_daily: parts[1:], empty when the
\* command came alone.
TimeTexts == {
    <<>>,
    << <<"0", ":", "1">> >>,
    << <<"0", "1", ":", "0", "0">> >>,
    << <<"0", "0", "1", ":", "0">> >>,
    << <<"0", ":", "0", ":", "1">> >>,
    << <<"0", "1", "0", "0">> >>,
    << <<"-", "1", ":", "0">> >>,
    << <<"0", ":", "9", "9">> >>,
    << <<"9", "9", ":", "0">> >> }

\* The times the buttons of subscribe_menu carry ("sub:daily:HH:00"): whole
\* hours of the day.
MenuTimes == {FmtHHMM(HoursPerDay - 1, 0)}

\* s.startswith(pre)
StartsWith(s, pre) == Len(s) >= Len(pre) /\ SubSeq(s, 1, Len(pre)) = pre

\* what follows the first n colons of s (s holds n or more):
\* s.split(":", n)[n]
RECURSIVE AfterColons(_, _)
AfterColons(s, n) ==
    IF n = 0 THEN s
    ELSE AfterColons(SubSeq(s, ColonAt(s) + 1, Len(s)), n - 1)

\* "sub:daily:"
DailyPrefix == <<"s", "u", "b", ":", "d", "a", "i", "l", "y", ":">>

\* the callback data of the daily buttons of subscribe_menu
MenuData == {DailyPrefix \o t : t \in MenuTimes}

\* Callback data that starts with "sub:daily:" and is of no button of the
\* menu: a callback query carries what the client sent, which need not be
\* the data of a button of the message.  One with nothing after the prefix,
\* one with a time no clock shows.
OtherData == {DailyPrefix, DailyPrefix \o <<"9", "9", ":", "9", "9">>}

\* ---- the store functions ----
\* A store function has returned: the connection is closed, the handler
\* holds its own arguments and what it got (the rowcount of add_sub's DELETE
\* went with its cursor).
Done(s, result) ==
    [s EXCEPT !.pc = "done", !.txn = EmptyTable, !.result = result,
              !.rowcount = IF s.op = "add" THEN 0 ELSE s.rowcount]

\* The handler ends without an answer from the store: its text was refused,
\* or an exception left it.
Failed(op, err) == [IdleSess EXCEPT !.pc = "done", !.op = op, !.error = err]

\* The handler's call of a store function.
Call(op, u, c, k, t) ==
    [IdleSess EXCEPT !.op = op, !.user_id = u, !.chat_id = c, !.kind = k,
                     !.daily_time = t]

\* Whether a connection can take SQLite's write lock.
LockFree == lock = 0

\* a connection in autocommit mode: every statement is committed as it runs
CommittedAfterWrite_autocommit(committed, pending) == pending

\* What the other connections see of a transaction's pending writes: nothing
\* (sqlite3 opens a transaction before the first DELETE or INSERT of a
\* connection and holds the writes until commit).
CommittedAfterWrite(committed, pending) == committed

\* add_sub up to its first statement: the connection is open and the
\* arguments are checked.
add_sub(p, u, c, k, t) ==
    IF k = "daily" /\ t = Null
    THEN sess' = [sess EXCEPT ![p] = Failed("add", "ValueError")]
    ELSE sess' = [sess EXCEPT ![p] = [Call("add", u, c, k, t) EXCEPT !.pc = "connected"]]

\* db.execute("DELETE ..."): takes the write lock; the rows go from the
\* connection's own view only.
add_sub_delete(p) ==
    /\ sess[p].pc = "connected" /\ sess[p].op = "add"
    /\ LockFree
    /\ LET rest == DeleteKind(table, sess[p].user_id, sess[p].kind)
       IN /\ sess' = [sess EXCEPT ![p].pc = "deleted", ![p].txn = rest,
                                  ![p].rowcount = RowsRemoved(table, rest)]
          /\ table' = CommittedAfterWrite(table, rest)
    /\ lock' = p
    /\ UNCHANGED <<clock, loop_vars>>

\* db.execute("INSERT ...")
add_sub_insert(p) ==
    /\ sess[p].pc = "deleted" /\ sess[p].op = "add"
    /\ LET new == InsertRow(sess[p].txn, Row(sess[p].user_id, sess[p].chat_id,
                                             sess[p].kind, sess[p].daily_time))
       IN /\ sess' = [sess EXCEPT ![p].pc = "inserted", ![p].txn = new]
          /\ table' = CommittedAfterWrite(table, new)
    /\ UNCHANGED <<lock, clock, loop_vars>>

\* db.commit(): the pending writes become the table, the lock is released.
add_sub_commit(p) ==
    /\ sess[p].pc = "inserted" /\ sess[p].op = "add"
    /\ table' = sess[p].txn
    /\ lock' = 0
    /\ sess' = [sess EXCEPT ![p] = Done(sess[p], <<>>)]
    /\ seen' = IF npc = "start" THEN seen ELSE seen \cup ChatsOf(sess[p].txn)
    /\ UNCHANGED <<clock, npc, now_utc, minute, time_hhmm, rates, todo, error,
                   sleep_left, late, prev_utc, outbox>>

\* remove_all_subs up to its statement
remove_all_subs(p, u) ==
    sess' = [sess EXCEPT ![p] =
        [Call("remove", u, 0, "none", Null) EXCEPT !.pc = "connected"]]

\* cur = await db.execute("DELETE FROM subs WHERE user_id=?")
remove_all_delete(p) ==
    /\ sess[p].pc = "connected" /\ sess[p].op = "remove"
    /\ LockFree
    /\ LET rest == DeleteUser(table, sess[p].user_id)
       IN /\ sess' = [sess EXCEPT ![p].pc = "deleted", ![p].txn = rest,
                                  ![p].rowcount = RowsRemoved(table, rest)]
          /\ table' = CommittedAfterWrite(table, rest)
    /\ lock' = p
    /\ UNCHANGED <<clock, loop_vars>>

\* db.commit(); return cur.rowcount
remove_all_commit(p) ==
    /\ sess[p].pc = "deleted" /\ sess[p].op = "remove"
    /\ table' = sess[p].txn
    /\ lock' = 0
    /\ sess' = [sess EXCEPT ![p] = Done(sess[p], <<>>)]
    /\ UNCHANGED <<clock, loop_vars>>

\* list_subs up to its statement
list_subs(p, u) ==
    sess' = [sess EXCEPT ![p] =
        [Call("list", u, 0, "none", Null) EXCEPT !.pc = "connected"]]

\* The SELECT of list_subs and the list built from its rows: a read of the
\* committed table.
list_subs_select(p) ==
    /\ sess[p].pc = "connected" /\ sess[p].op = "list"
    /\ sess' = [sess EXCEPT ![p] =
            Done(sess[p], SelectByUser(table, sess[p].user_id))]
    /\ UNCHANGED <<table, lock, clock, loop_vars>>

\* a failing connection whose writes stay in the file
db_error_keeps_writes(p) ==
    /\ sess[p].pc \in {"connected", "deleted", "inserted"}
    /\ sess' = [sess EXCEPT ![p] = Failed(sess[p].op, "OperationalError")]
    /\ lock' = IF lock = p THEN 0 ELSE lock
    /\ table' = IF sess[p].pc = "connected" THEN table ELSE sess[p].txn
    /\ UNCHANGED <<clock, loop_vars>>

\* A statement or the commit raises (sqlite3.OperationalError: the database
\* is locked by another connection for longer than the busy timeout, or the
\* file cannot be read or written).  The exception leaves the async with
\* block, the connection closes and its open transaction is rolled back.
db_error(p) ==
    /\ sess[p].pc \in {"connected", "deleted", "inserted"}
    /\ sess' = [sess EXCEPT ![p] = Failed(sess[p].op, "OperationalError")]
    /\ lock' = IF lock = p THEN 0 ELSE lock
    /\ UNCHANGED <<table, clock, loop_vars>>

\* ---- the handlers ----
cb_sub_hourly(p, u, c) ==
    /\ sess[p].pc = "idle"
    /\ add_sub(p, u, c, "hourly", Null)
    /\ UNCHANGED <<table, lock, clock, loop_vars>>

\* F.data.startswith("sub:daily:"); time_str = call.data.split(":", 2)[2]
cb_sub_daily(p, u, c, data) ==
    /\ sess[p].pc = "idle"
    /\ StartsWith(data, DailyPrefix)
    /\ add_sub(p, u, c, "daily", AfterColons(data, 2))
    /\ UNCHANGED <<table, lock, clock, loop_vars>>

\* The checks of cmd_subscribe_daily on the words of the message; a text that
\* fails one is answered and nothing is stored.
TimeTextOk(parts) ==
    /\ Len(parts) >= 1
    /\ CountColons(parts[1]) = 1
    /\ IsDigit(SplitHH(parts[1])) /\ IsDigit(SplitMM(parts[1]))
    /\ 0 <= ParseInt(SplitHH(parts[1])) /\ ParseInt(SplitHH(parts[1])) <= HoursPerDay - 1
    /\ 0 <= ParseInt(SplitMM(parts[1])) /\ ParseInt(SplitMM(parts[1])) <= MinutesPerHour - 1

cmd_subscribe_daily(p, u, c, parts) ==
    /\ sess[p].pc = "idle"
    /\ IF TimeTextOk(parts)
       THEN add_sub(p, u, c, "daily",
                    FmtHHMM(ParseInt(SplitHH(parts[1])), ParseInt(SplitMM(parts[1]))))
       ELSE sess' = [sess EXCEPT ![p] = Failed("add", "rejected")]
    /\ UNCHANGED <<table, lock, clock, loop_vars>>

\* cmd_unsubscribe and cb_unsub_all
cmd_unsubscribe(p, u) ==
    /\ sess[p].pc = "idle"
    /\ remove_all_subs(p, u)
    /\ UNCHANGED <<table, lock, clock, loop_vars>>

cmd_mysubs(p, u) ==
    /\ sess[p].pc = "idle"
    /\ list_subs(p, u)
    /\ UNCHANGED <<table, lock, clock, loop_vars>>

\* The handler answers the user and ends.
handler_return(p) ==
    /\ sess[p].pc = "done"
    /\ sess' = [sess EXCEPT ![p] = IdleSess]
    /\ UNCHANGED <<table, lock, clock, loop_vars>>

\* ---- get_rates and fmt_rates ----
NoRates == [ton_usd |-> 0, usd_rub |-> 0, ton_rub |-> 0, ts |-> 0]

\* The dict get_rates returns for the two fetched prices, taken at time t.
get_rates(ton_usd, usd_rub, t) ==
    [ton_usd |-> ton_usd, usd_rub |-> usd_rub, ton_rub |-> ton_usd * usd_rub,
     ts |-> t]

\* f"{x:.4f}" and f"{x:.2f}" of a whole number
FmtFixed(n, places) == DecStr(n) \o <<".">> \o [i \in 1..places |-> "0"]

\* The lines of the message: the three rates and the time of the snapshot
\* (to the minute here; the code prints the local date and time).
fmt_rates(r) ==
    [usd_rub |-> FmtFixed(r.usd_rub, 2), ton_usd |-> FmtFixed(r.ton_usd, 4),
     ton_rub |-> FmtFixed(r.ton_rub, 2), updated |-> StrftimeHM(r.ts)]

\* ---- notifier_loop ----
\* The orders in which fetchall() may return a set of rows.
Orders(S) == {s \in [1..Cardinality(S) -> S] :
                \A i, j \in 1..Cardinality(S) : s[i] = s[j] => i = j}

\* no except clause: the exception ends the task
Except_escapes(e) ==
    /\ error' = e
    /\ npc' = "crashed"
    /\ sleep_left' = sleep_left
    /\ todo' = <<>>

\* except Exception as e: print(...); finally: await asyncio.sleep(60)
Except(e) ==
    /\ error' = e
    /\ npc' = "sleep"
    /\ sleep_left' = SleepTime
    /\ todo' = <<>>

\* a tick started by a timer, wherever the tick before it is
tick_start_on_timer ==
    /\ now_utc' = clock
    /\ minute' = MinuteOf(clock)
    /\ time_hhmm' = StrftimeHM(clock)
    /\ npc' = "fetch"
    /\ rates' = NoRates
    /\ todo' = <<>>
    /\ error' = "none"
    /\ late' = 0
    /\ prev_utc' = IF npc = "start" THEN -1 ELSE now_utc
    /\ outbox' = <<>>
    /\ seen' = ChatsOf(table)
    /\ UNCHANGED <<store_vars, clock, sleep_left>>

\* The loop body starts: at start-up, and when the sleep has run out.
tick_start ==
    /\ npc = "start" \/ (npc = "sleep" /\ sleep_left = 0)
    /\ now_utc' = clock
    /\ minute' = MinuteOf(clock)
    /\ time_hhmm' = StrftimeHM(clock)
    /\ npc' = "fetch"
    /\ rates' = NoRates
    /\ todo' = <<>>
    /\ error' = "none"
    /\ late' = 0
    /\ prev_utc' = IF npc = "start" THEN -1 ELSE now_utc
    /\ outbox' = <<>>
    /\ seen' = ChatsOf(table)
    /\ UNCHANGED <<store_vars, clock, sleep_left>>

\* rates = await get_rates()
get_rates_ok ==
    /\ npc = "fetch"
    /\ \E a \in Prices, b \in Prices : rates' = get_rates(a, b, clock)
    /\ npc' = "hourly"
    /\ UNCHANGED <<store_vars, clock, now_utc, minute, time_hhmm, todo, error,
                   sleep_left, late, prev_utc, outbox, seen>>

\* the failure of get_rates caught inside the loop body, which goes on
get_rates_fail_swallowed ==
    /\ npc = "fetch"
    /\ error' = "fetch"
    /\ npc' = "hourly"
    /\ UNCHANGED <<store_vars, clock, now_utc, minute, time_hhmm, rates, todo,
                   sleep_left, late, prev_utc, outbox, seen>>

\* get_rates raises: a request fails or an answer is malformed
get_rates_fail ==
    /\ npc = "fetch"
    /\ Except("fetch")
    /\ UNCHANGED <<store_vars, clock, now_utc, minute, time_hhmm, rates,
                   late, prev_utc, outbox, seen>>

\* hourly sends to every chat the bot knows, subscribed or not
query_hourly_all_chats ==
    /\ npc = "hourly"
    /\ IF minute = 0
       THEN /\ todo' \in Orders(Chats)
            /\ npc' = "send_hourly"
       ELSE /\ todo' = <<>>
            /\ npc' = "daily"
    /\ UNCHANGED <<store_vars, clock, now_utc, minute, time_hhmm, rates, error,
                   sleep_left, late, prev_utc, outbox, seen>>

\* the hourly SELECT run in every tick, whatever the minute
query_hourly_every_tick ==
    /\ npc = "hourly"
    /\ IF HourlyChats(table) # {}
       THEN /\ todo' \in Orders(HourlyChats(table))
            /\ npc' = "send_hourly"
       ELSE /\ todo' = <<>>
            /\ npc' = "daily"
    /\ UNCHANGED <<store_vars, clock, now_utc, minute, time_hhmm, rates, error,
                   sleep_left, late, prev_utc, outbox, seen>>

\* if minute == 0: SELECT DISTINCT chat_id ... kind='hourly'; fetchall()
query_hourly ==
    /\ npc = "hourly"
    /\ IF minute = 0 /\ HourlyChats(table) # {}
       THEN /\ todo' \in Orders(HourlyChats(table))
            /\ npc' = "send_hourly"
       ELSE /\ todo' = <<>>
            /\ npc' = "daily"
    /\ UNCHANGED <<store_vars, clock, now_utc, minute, time_hhmm, rates, error,
                   sleep_left, late, prev_utc, outbox, seen>>

\* SELECT DISTINCT chat_id ... kind='daily' AND daily_time=?; fetchall().
\* With no row the loop body is over.
query_daily ==
    /\ npc = "daily"
    /\ IF DailyChats(table, time_hhmm) # {}
       THEN /\ todo' \in Orders(DailyChats(table, time_hhmm))
            /\ npc' = "send_daily"
            /\ UNCHANGED sleep_left
       ELSE /\ todo' = <<>>
            /\ npc' = "sleep"
            /\ sleep_left' = SleepTime
    /\ UNCHANGED <<store_vars, clock, now_utc, minute, time_hhmm, rates, error,
                   late, prev_utc, outbox, seen>>

\* A statement of the loop's connection raises.
query_fail ==
    /\ npc \in {"hourly", "daily"}
    /\ Except("store")
    /\ UNCHANGED <<store_vars, clock, now_utc, minute, time_hhmm, rates,
                   late, prev_utc, outbox, seen>>

\* a message that shows no fetched rate
Sent_no_rates(kind, ok) ==
    [chat_id |-> Head(todo), kind |-> kind, text |-> fmt_rates(NoRates), ok |-> ok]

\* a message rendered from rates taken anew at the send
Sent_fresh_rates(kind, ok) ==
    [chat_id |-> Head(todo), kind |-> kind,
     text |-> fmt_rates([rates EXCEPT !.ts = clock]), ok |-> ok]

\* One call bot.send_message(row[0], fmt_rates(rates)) and how it ended.
Sent(kind, ok) ==
    [chat_id |-> Head(todo), kind |-> kind, text |-> fmt_rates(rates), ok |-> ok]

\* await bot.send_message(row[0], fmt_rates(rates)) returns
send_ok ==
    /\ npc \in {"send_hourly", "send_daily"}
    /\ outbox' = Append(outbox, Sent(IF npc = "send_hourly" THEN "hourly" ELSE "daily", TRUE))
    /\ todo' = Tail(todo)
    /\ IF Tail(todo) # <<>>
       THEN UNCHANGED <<npc, sleep_left>>
       ELSE IF npc = "send_hourly"
            THEN npc' = "daily" /\ UNCHANGED sleep_left
            ELSE npc' = "sleep" /\ sleep_left' = SleepTime
    /\ UNCHANGED <<store_vars, clock, now_utc, minute, time_hhmm, rates, error,
                   late, prev_utc, seen>>

\* a failed send caught at the call and tried again
send_fail_retried ==
    /\ npc \in {"send_hourly", "send_daily"}
    /\ outbox' = Append(outbox, Sent(IF npc = "send_hourly" THEN "hourly" ELSE "daily", FALSE))
    /\ UNCHANGED <<store_vars, clock, npc, now_utc, minute, time_hhmm, rates,
                   todo, error, sleep_left, late, prev_utc, seen>>

\* await bot.send_message(...) raises (the chat blocked the bot, the network
\* failed): the exception leaves both loops and the connection
send_fail ==
    /\ npc \in {"send_hourly", "send_daily"}
    /\ outbox' = Append(outbox, Sent(IF npc = "send_hourly" THEN "hourly" ELSE "daily", FALSE))
    /\ Except("send")
    /\ UNCHANGED <<store_vars, clock, now_utc, minute, time_hhmm, rates,
                   late, prev_utc, seen>>

\* The clock moves on by one step.  A tick takes at most MaxWork steps beyond
\* its sleep.
time_passes ==
    /\ clock' = (clock + 1) % DayLen
    /\ IF npc = "sleep" /\ sleep_left > 0
       THEN sleep_left' = sleep_left - 1 /\ UNCHANGED late
       ELSE late < MaxWork /\ late' = late + 1 /\ UNCHANGED sleep_left
    /\ UNCHANGED <<store_vars, npc, now_utc, minute, time_hhmm, rates, todo,
                   error, prev_utc, outbox, seen>>

notifier_loop ==
    \/ tick_start
    \/ get_rates_ok
    \/ get_rates_fail
    \/ query_hourly
    \/ query_daily
    \/ query_fail
    \/ send_ok
    \/ send_fail

\* ---- the system ----
\* main(): init_db() creates the table when it is missing, the loop is
\* started, the handlers are polled.  The subscriptions of earlier runs are
\* in the file.
LoopInit ==
    /\ npc = "start"
    /\ now_utc = 0
    /\ minute = 0
    /\ time_hhmm = Null
    /\ rates = NoRates
    /\ todo = <<>>
    /\ error = "none"
    /\ sleep_left = 0
    /\ late = 0
    /\ prev_utc = -1
    /\ outbox = <<>>
    /\ seen = {}

Init ==
    /\ table = EmptyTable
    /\ lock = 0
    /\ sess = [p \in Procs |-> IdleSess]
    /\ clock \in 0..(DayLen - 1)
    /\ LoopInit

\* The handlers as the menu and the commands drive them, in coroutine p.
Handler(p) ==
    \/ \E u \in Users, c \in Chats :
          \/ cb_sub_hourly(p, u, c)
          \/ \E data \in MenuData : cb_sub_daily(p, u, c, data)
          \/ \E parts \in TimeTexts : cmd_subscribe_daily(p, u, c, parts)
    \/ \E u \in Users : cmd_unsubscribe(p, u) \/ cmd_mysubs(p, u)
    \/ add_sub_delete(p) \/ add_sub_insert(p) \/ add_sub_commit(p)
    \/ remove_all_delete(p) \/ remove_all_commit(p)
    \/ list_subs_select(p)
    \/ db_error(p)
    \/ handler_return(p)

Handlers == \E p \in Procs : Handler(p)

\* A callback query whose data is of no button reaches cb_sub_daily.
OtherCallback(p) ==
    \E u \in Users, c \in Chats, data \in OtherData : cb_sub_daily(p, u, c, data)

Next ==
    \/ Handlers
    \/ \E p \in Procs : OtherCallback(p)
    \/ notifier_loop
    \/ time_passes

Spec == Init /\ [][Next]_vars

\* The store under the handlers alone.
StoreInit == Init /\ clock = 0

StoreSpec == StoreInit /\ [][Handlers]_vars

\* Every way into the store, one handler at a time.
EntryNext == Handler(1) \/ OtherCallback(1)

EntrySpec == StoreInit /\ [][EntryNext]_vars

\* The subscriptions a run may find in the file: per user at most one hourly
\* row and at most one daily row, the daily times those the handlers store.
StoredTimes ==
    MenuTimes \cup
    {FmtHHMM(ParseInt(SplitHH(parts[1])), ParseInt(SplitMM(parts[1]))) :
        parts \in {x \in TimeTexts : TimeTextOk(x)}}

RECURSIVE TableOf(_, _, _)
TableOf(S, h, d) ==
    IF S = {} THEN EmptyTable
    ELSE LET u == CHOOSE x \in S : TRUE
             t0 == TableOf(S \ {u}, h, d)
             t1 == IF h[u] = 0 THEN t0 ELSE InsertRow(t0, Row(u, h[u], "hourly", Null))
         IN IF d[u] = <<>> THEN t1
            ELSE InsertRow(t1, Row(u, d[u][1], "daily", d[u][2]))

Tables ==
    {TableOf(Users, h, d) :
        h \in [Users -> Chats \cup {0}],
        d \in [Users -> {<<>>} \cup (Chats \X StoredTimes)]}

\* The loop over a store that no handler changes.
LoopSpecInit ==
    /\ table \in Tables
    /\ lock = 0
    /\ sess = [p \in Procs |-> IdleSess]
    /\ clock \in 0..(DayLen - 1)
    /\ LoopInit

LoopNext == notifier_loop \/ time_passes

LoopSpec == LoopSpecInit /\ [][LoopNext]_vars

\* The stores in which every user holds an hourly subscription and a daily
\* one at a time of the menu: both SELECTs of a tick can find chats.
FullTables ==
    {TableOf(Users, h, d) :
        h \in [Users -> Chats],
        d \in [Users -> Chats \X MenuTimes]}

FairLoopInit == LoopSpecInit /\ table \in FullTables

\* The loop, which never stays at a step it can take, and the clock, which
\* never stops: every await of the loop body ends (the requests of get_rates
\* and of send_message time out, the sleep runs out).
FairLoopSpec ==
    /\ FairLoopInit
    /\ [][LoopNext]_vars
    /\ WF_vars(notifier_loop)
    /\ WF_vars(time_passes)

\* Concurrent hourly upserts against one pass of the loop body, at any time
\* of the day.
ReadHandlers ==
    \E p \in Procs :
        \/ \E u \in Users, c \in Chats : cb_sub_hourly(p, u, c)
        \/ add_sub_delete(p) \/ add_sub_insert(p) \/ add_sub_commit(p)
        \/ db_error(p)
        \/ handler_return(p)

ReadNext == ReadHandlers \/ notifier_loop

ReadSpec == Init /\ [][ReadNext]_vars

\* The loop through the day while one handler at a time subscribes chats
\* hourly and unsubscribes users.
LiveHandler(p) ==
    \/ \E u \in Users, c \in Chats : cb_sub_hourly(p, u, c)
    \/ \E u \in Users : cmd_unsubscribe(p, u)
    \/ add_sub_delete(p) \/ add_sub_insert(p) \/ add_sub_commit(p)
    \/ remove_all_delete(p) \/ remove_all_commit(p)
    \/ db_error(p)
    \/ handler_return(p)

LiveNext == LiveHandler(1) \/ notifier_loop \/ time_passes

LiveSpec == StoreInit /\ [][LiveNext]_vars

\* ---- what a tick owes ----
DueHourly == IF minute = 0 THEN HourlyChats(table) ELSE {}
DueDaily == DailyChats(table, time_hhmm)

Attempted(kind, c) ==
    \E i \in 1..Len(outbox) : outbox[i].kind = kind /\ outbox[i].chat_id = c

\* the time from the tick before to this one
Gap == (now_utc + DayLen - prev_utc) % DayLen

\* the minute of the day the clock value t lies in
MinuteIndex(t) == HourOf(t) * MinutesPerHour + MinuteOf(t)

\* a write transaction of add_sub is open on connection p
InUpsert(p) == sess[p].op = "add" /\ sess[p].pc \in {"deleted", "inserted"}

\* ---- the claims ----

\* C1: in every reachable state of the store, whatever the interleaving of
\* the upserts and the remove_alls, a user owns at most one hourly and at
\* most one daily subscription.
C1_AtMostOnePerKind ==
    \A u \in Users, k \in Kinds : CountKind(table, u, k) <= 1

\* An upsert that replaces the user's row is about to commit while a
\* remove_all of the same user waits for the write lock.
C1_Witness ==
    \E p \in Procs, q \in Procs :
        /\ InUpsert(p) /\ sess[p].pc = "inserted" /\ sess[p].rowcount = 1
        /\ sess[q].op = "remove" /\ sess[q].pc = "connected"
        /\ sess[q].user_id = sess[p].user_id
        /\ CountKind(table, sess[p].user_id, sess[p].kind) = 1
        /\ CountKind(sess[p].txn, sess[p].user_id, sess[p].kind) = 1

\* C2 (as claimed): when a tick ends on a failed send, a send has been
\* attempted to every chat that was due in the tick.
C2_FailedSendDoesNotStopOthers ==
    (npc = "sleep" /\ error = "send") =>
        /\ \A c \in DueHourly : Attempted("hourly", c)
        /\ \A c \in DueDaily : Attempted("daily", c)

\* C3: a tick whose get_rates fails sends nothing and ends; the loop's next
\* step is the start of a new tick after the sleep, which reads the clock
\* again and starts with no error and nothing sent.
C3_FetchFailureSendsNothing ==
    /\ [](error = "fetch" => (outbox = <<>> /\ npc = "sleep"))
    /\ [][(error = "fetch" /\ npc' # npc) =>
            /\ sleep_left = 0
            /\ npc' = "fetch"
            /\ now_utc' = clock
            /\ minute' = MinuteOf(clock)
            /\ time_hhmm' = StrftimeHM(clock)
            /\ error' = "none"
            /\ outbox' = <<>>]_vars

\* get_rates has failed in a tick in which a chat was due.
C3_Witness ==
    /\ error = "fetch" /\ npc = "sleep"
    /\ DueHourly # {} /\ DueDaily # {}

\* C4: the loop has no terminal state: it starts ticks again and again, and
\* after a tick that ended with an error, whichever, a further tick starts.
C4_LoopNeverStops ==
    /\ []<>(npc = "fetch")
    /\ \A e \in {"fetch", "store", "send"} :
          (error = e) ~> (npc = "fetch" /\ error = "none")

\* A tick that followed another has ended with a failed send (after sends
\* that succeeded) and its sleep has run out.
C4_Witness ==
    /\ npc = "sleep" /\ error = "send" /\ sleep_left = 0
    /\ prev_utc >= 0
    /\ Len(outbox) > 1

\* C5: while a transaction of add_sub is open (the old row deleted, the new
\* one inserted or not), the committed table, which is what every other
\* connection reads (list_subs, the loop's two SELECTs, another add_sub's
\* DELETE), still holds the user's old rows of that kind and no pending one,
\* and differs from the transaction's view in nothing else.
C5_NoIntermediateStateVisible ==
    \A p \in Procs :
        InUpsert(p) =>
            /\ CountKind(table, sess[p].user_id, sess[p].kind) = sess[p].rowcount
            /\ DeleteKind(table, sess[p].user_id, sess[p].kind)
                 = DeleteKind(sess[p].txn, sess[p].user_id, sess[p].kind)
            /\ CountKind(sess[p].txn, sess[p].user_id, sess[p].kind)
                 = (IF sess[p].pc = "deleted" THEN 0 ELSE 1)

\* The loop has read the hourly chats and still holds the chat of a user's
\* row, while an upsert of that user to another chat has deleted the row in
\* its transaction and not yet inserted the new one, and a second upsert
\* waits.
C5_Witness ==
    \E p \in Procs, q \in Procs :
        /\ InUpsert(p) /\ sess[p].pc = "deleted" /\ sess[p].rowcount = 1
        /\ sess[q].op = "add" /\ sess[q].pc = "connected"
        /\ npc = "send_hourly"
        /\ \E r \in DOMAIN table :
              /\ r.user_id = sess[p].user_id /\ r.kind = sess[p].kind
              /\ r.chat_id # sess[p].chat_id
              /\ \E i \in 1..Len(todo) : todo[i] = r.chat_id

\* the SELECT of list_subs on connection p returns in this step
ListReturns(p) ==
    /\ sess[p].op = "list" /\ sess[p].pc = "connected"
    /\ sess'[p].pc = "done" /\ sess'[p].error = "none"

\* C6 (as claimed): list_subs returns the hourly subscription before the
\* daily one.
C6_HourlyBeforeDaily ==
    \A p \in Procs :
        (sess[p].pc = "done" /\ sess[p].op = "list" /\ Len(sess[p].result) = 2
            /\ sess[p].result[1].kind # sess[p].result[2].kind)
        => sess[p].result[1].kind = "hourly"

\* C6 (amended): list_subs returns the user's subscriptions, one entry per
\* row, in ascending order of the kind string: the daily subscription
\* before the hourly one.
C6_DailyBeforeHourly ==
    [][\A p \in Procs :
        ListReturns(p) =>
            LET r == sess'[p].result
                u == sess[p].user_id
            IN /\ Len(r) = CountUser(table, u)
               /\ \A i \in 1..Len(r) :
                     \E x \in DOMAIN table :
                        /\ x.user_id = u /\ x.kind = r[i].kind
                        /\ x.daily_time = r[i].daily_time
               /\ \A i, j \in 1..Len(r) :
                     (i < j /\ r[i].kind # r[j].kind)
                        => (r[i].kind = "daily" /\ r[j].kind = "hourly")]_vars

\* list_subs has returned both subscriptions of a user.
C6_Witness ==
    \E p \in Procs :
        /\ sess[p].pc = "done" /\ sess[p].op = "list" /\ sess[p].error = "none"
        /\ Len(sess[p].result) = 2
        /\ sess[p].result[1].kind = "daily"
        /\ sess[p].result[2].kind = "hourly"

\* add_sub on connection p commits in this step
UpsertCommits(p) ==
    /\ InUpsert(p) /\ sess[p].pc = "inserted"
    /\ sess'[p].pc = "done" /\ sess'[p].error = "none"

\* C7: when an upsert commits, whatever the user held before, the store
\* holds exactly one subscription of that kind for the user, bound to the
\* chat (and for a daily one the time) of this upsert.
C7_LastUpsertWins ==
    [][\A p \in Procs :
        UpsertCommits(p) =>
            LET new == Row(sess[p].user_id, sess[p].chat_id, sess[p].kind,
                           sess[p].daily_time)
            IN /\ CountKind(table', sess[p].user_id, sess[p].kind) = 1
               /\ new \in DOMAIN table'
               /\ table'[new] = 1]_vars

\* Two daily upserts of one user, to different chats and times, have both
\* returned; the store holds the row of one of them, the later one.
C7_Witness ==
    \E p \in Procs, q \in Procs :
        /\ p # q
        /\ sess[p].pc = "done" /\ sess[p].op = "add" /\ sess[p].error = "none"
        /\ sess[q].pc = "done" /\ sess[q].op = "add" /\ sess[q].error = "none"
        /\ sess[p].user_id = sess[q].user_id
        /\ sess[p].kind = "daily" /\ sess[q].kind = "daily"
        /\ sess[p].chat_id # sess[q].chat_id
        /\ sess[p].daily_time # sess[q].daily_time
        /\ CountKind(table, sess[p].user_id, "daily") = 1
        /\ Row(sess[p].user_id, sess[p].chat_id, "daily", sess[p].daily_time)
              \in DOMAIN table

\* remove_all_subs on connection p commits and returns in this step
RemoveAllReturns(p) ==
    /\ sess[p].op = "remove" /\ sess[p].pc = "deleted"
    /\ sess'[p].pc = "done" /\ sess'[p].error = "none"

\* C8: remove_all_subs leaves the user without a subscription and returns
\* the number of subscriptions the user held: 2 for one hourly and one
\* daily, 0 for none.
C8_RemoveAllCounts ==
    [][\A p \in Procs :
        RemoveAllReturns(p) =>
            /\ CountUser(table', sess[p].user_id) = 0
            /\ sess'[p].rowcount = CountUser(table, sess[p].user_id)
            /\ sess'[p].rowcount
                 = CountKind(table, sess[p].user_id, "hourly")
                   + CountKind(table, sess[p].user_id, "daily")]_vars

\* remove_all_subs has returned 2 and the user holds nothing.
C8_Witness ==
    \E p \in Procs :
        /\ sess[p].pc = "done" /\ sess[p].op = "remove" /\ sess[p].error = "none"
        /\ sess[p].rowcount = 2
        /\ CountUser(table, sess[p].user_id) = 0

\* C9 (as claimed): a tick starts one period after the tick before it,
\* however long that one took, and in the minute that follows its minute.
C9_FixedPeriod ==
    (prev_utc >= 0) =>
        /\ Gap = SleepTime
        /\ MinuteIndex(now_utc)
             = (MinuteIndex(prev_utc) + 1) % (HoursPerDay * MinutesPerHour)

\* C10: two ticks that follow each other (less than a day apart) never read
\* the same hour and minute off the clock.
C10_NoMinuteTwice ==
    (prev_utc >= 0) =>
        <<HourOf(now_utc), MinuteOf(now_utc)>> # <<HourOf(prev_utc), MinuteOf(prev_utc)>>

\* A tick has started right when the sleep after an immediate tick ran out.
C10_Witness ==
    /\ prev_utc >= 0 /\ npc = "fetch"
    /\ Gap = SleepTime
    /\ MinuteIndex(now_utc) # MinuteIndex(prev_utc)

\* the daily rows of tbl for chat c whose time is hhmm
DailyRowsAt(tbl, c, hhmm) ==
    {r \in DOMAIN tbl : r.kind = "daily" /\ r.chat_id = c /\ r.daily_time = hhmm}

\* a tick has run to its end with no exception
TickDone == npc = "sleep" /\ error = "none"

\* C11: over a store that holds daily subscriptions, a daily message goes to
\* a chat only in a tick whose time, read at its start and written HH:MM,
\* equals the stored time of a daily subscription of that chat; and a tick
\* that ran to its end without an error has sent a daily message to a chat
\* with a daily subscription exactly when its time equals a stored time of
\* that chat: not in the minute before, not in the minute after.
C11_DailyIffTimeEqual ==
    /\ \A i \in 1..Len(outbox) :
          outbox[i].kind = "daily" =>
              DailyRowsAt(table, outbox[i].chat_id, StrftimeHM(now_utc)) # {}
    /\ TickDone =>
          \A r \in DOMAIN table :
              r.kind = "daily" =>
                  (Attempted("daily", r.chat_id)
                      <=> DailyRowsAt(table, r.chat_id, StrftimeHM(now_utc)) # {})

\* A tick at the time of one chat's daily subscription has sent to it and
\* not to a chat whose daily subscription is for another minute.
C11_Witness ==
    /\ TickDone
    /\ \E r1 \in DOMAIN table, r2 \in DOMAIN table :
          /\ r1.kind = "daily" /\ r2.kind = "daily"
          /\ r1.chat_id # r2.chat_id
          /\ r1.daily_time = StrftimeHM(now_utc)
          /\ r2.daily_time # StrftimeHM(now_utc)
          /\ Attempted("daily", r1.chat_id)
          /\ ~Attempted("daily", r2.chat_id)
          /\ DailyRowsAt(table, r2.chat_id, StrftimeHM(now_utc)) = {}

\* C12: a tick whose minute, read at its start, is not 0 sends no hourly
\* message to any chat.
C12_HourlyOnlyAtMinuteZero ==
    \A i \in 1..Len(outbox) :
        outbox[i].kind = "hourly" => MinuteOf(now_utc) = 0

\* A tick at a minute other than 0 has run to its end over a store with
\* hourly subscriptions; it has sent a daily message and no hourly one.
C12_Witness ==
    /\ TickDone
    /\ MinuteOf(now_utc) # 0
    /\ HourlyChats(table) # {}
    /\ Len(outbox) > 0
    /\ \A i \in 1..Len(outbox) : outbox[i].kind = "daily"

\* C13: in one tick no chat is sent to twice for the same cadence, whether
\* the sends succeed or fail: subscriptions of several users to one chat
\* make one send, and a failed send is not repeated.
C13_OneSendPerChatAndKind ==
    \A i, j \in 1..Len(outbox) :
        (outbox[i].chat_id = outbox[j].chat_id /\ outbox[i].kind = outbox[j].kind)
            => i = j

\* Two users hold an hourly subscription to the same chat; the tick made one
\* send to it, which failed, and is over.
C13_Witness ==
    /\ npc = "sleep" /\ error = "send"
    /\ Len(outbox) = 1 /\ ~outbox[1].ok /\ outbox[1].kind = "hourly"
    /\ \E r1 \in DOMAIN table, r2 \in DOMAIN table :
          /\ r1.kind = "hourly" /\ r2.kind = "hourly"
          /\ r1.user_id # r2.user_id
          /\ r1.chat_id = outbox[1].chat_id /\ r2.chat_id = outbox[1].chat_id

\* C14: there is one loop and its ticks follow each other: the wait begins
\* only when the tick has nothing left to send (it ran to its end or an
\* exception ended it), the loop is in a tick or in its wait and never in
\* both, and a tick starts only from the start of the loop or from the end
\* of the wait, never while another is fetching or sending; the handlers
\* take their steps meanwhile.
C14_TicksNeverOverlap ==
    /\ [](npc = "sleep" => todo = <<>>)
    /\ [](sleep_left > 0 => npc = "sleep")
    /\ [][(npc' = "fetch" /\ npc # "fetch") =>
            /\ npc = "start" \/ (npc = "sleep" /\ sleep_left = 0)
            /\ todo = <<>>]_vars

\* A tick that followed another is sending while an upsert has its
\* transaction open.
C14_Witness ==
    /\ prev_utc >= 0
    /\ npc = "send_hourly" /\ Len(todo) > 0
    /\ InUpsert(1)

\* a time of the day written HH:MM, two digits each, on the clock's range
\* (00..23 and 00..59 on the full clock)
ValidHHMM(s) ==
    /\ Len(s) = 5
    /\ s[3] = ":"
    /\ IsDigit(SubSeq(s, 1, 2)) /\ IsDigit(SubSeq(s, 4, 5))
    /\ ParseInt(SubSeq(s, 1, 2)) <= HoursPerDay - 1
    /\ ParseInt(SubSeq(s, 4, 5)) <= MinutesPerHour - 1

\* C15 (as claimed): every daily subscription in the store, whichever
\* handler stored it, has a valid zero-padded HH:MM as its time.
C15_DailyTimesValid ==
    \A r \in DOMAIN table : r.kind = "daily" => ValidHHMM(r.daily_time)

\* add_sub, called in coroutine p, raises in this step: its check of the
\* arguments, or a statement or the commit of its connection
AddSubRaises(p) ==
    /\ sess[p].pc # "done" /\ sess'[p].pc = "done"
    /\ sess'[p].op = "add"
    /\ sess'[p].error \in {"ValueError", "OperationalError"}

\* C16: an add_sub that fails, at its check of the arguments, at its
\* DELETE, at its INSERT or at its commit, leaves the store as it was: no
\* step of an add_sub other than its commit changes the table, the step
\* that fails does not either and gives up the write lock, and the handler
\* that called it ends with the exception.
C16_FailedUpsertChangesNothing ==
    /\ [][\A p \in Procs :
            (sess[p].op = "add" /\ sess[p].pc \in {"connected", "deleted", "inserted"}
                /\ ~UpsertCommits(p))
            => table' = table]_vars
    /\ [][\A p \in Procs :
            AddSubRaises(p) =>
                /\ table' = table
                /\ lock' # p
                /\ sess'[p].result = <<>>]_vars
    /\ [][\A p \in Procs :
            (sess[p].op = "add" /\ sess[p].pc \in {"connected", "deleted", "inserted"}
                /\ sess'[p].pc = "done" /\ ~UpsertCommits(p))
            => sess'[p].error = "OperationalError"]_vars

\* An add_sub has failed on its connection while every user held a
\* subscription of each kind, and every one of them is still in the store.
C16_Witness ==
    /\ sess[1].pc = "done" /\ sess[1].op = "add"
    /\ sess[1].error = "OperationalError"
    /\ \A u \in Users, k \in Kinds : CountKind(table, u, k) = 1

\* the sends of this tick to chat c, and those of one cadence
SendsTo(c) == {i \in 1..Len(outbox) : outbox[i].chat_id = c}
SendsOfKindTo(kind, c) == {i \in SendsTo(c) : outbox[i].kind = kind}

\* rates is a snapshot get_rates returned in this tick: taken after the
\* start of the tick, within the time a tick takes
FetchedInThisTick ==
    /\ rates # NoRates
    /\ (rates.ts + DayLen - now_utc) % DayLen <= MaxWork

\* C17 (as claimed): in a tick at minute 0 that ran to its end with no
\* exception, every chat with an hourly subscription has received exactly
\* one message, rendered from the snapshot of the tick.
C17_ExactlyOneMessage ==
    (TickDone /\ MinuteOf(now_utc) = 0) =>
        \A c \in HourlyChats(table) :
            /\ Cardinality(SendsTo(c)) = 1
            /\ \A i \in SendsTo(c) : outbox[i].ok /\ outbox[i].text = fmt_rates(rates)
            /\ FetchedInThisTick

\* C17 (amended): in a tick at minute 0 that ran to its end with no
\* exception, every chat with an hourly subscription has received exactly
\* one hourly message, rendered from the snapshot fetched in the tick; it
\* has received one message more, the daily one, when a daily subscription
\* of the chat is for this hour, and no other.
C17_ExactlyOneHourlyMessage ==
    (TickDone /\ MinuteOf(now_utc) = 0) =>
        \A c \in HourlyChats(table) :
            /\ Cardinality(SendsOfKindTo("hourly", c)) = 1
            /\ \A i \in SendsTo(c) : outbox[i].ok /\ outbox[i].text = fmt_rates(rates)
            /\ FetchedInThisTick
            /\ Cardinality(SendsTo(c))
                 = (IF DailyRowsAt(table, c, StrftimeHM(now_utc)) # {} THEN 2 ELSE 1)

\* A tick at a whole hour is over: one chat with an hourly subscription got
\* its one message, another, which also has a daily subscription for this
\* hour, got the hourly message and the daily one.
C17_Witness ==
    /\ TickDone /\ MinuteOf(now_utc) = 0
    /\ \E c \in HourlyChats(table), d \in HourlyChats(table) :
          /\ Cardinality(SendsTo(c)) = 1
          /\ Cardinality(SendsTo(d)) = 2
          /\ Cardinality(SendsOfKindTo("hourly", d)) = 1

\* The calls of fmt_rates in this tick.  The loop calls it in the argument
\* list of each bot.send_message call, so it has run once for every call
\* the outbox records, the failed one included, and nowhere else.
FmtRatesCalls == Len(outbox)

\* C18 (as claimed): a tick that ran to its end has called fmt_rates once,
\* however many chats were due.
C18_RenderedOncePerTick ==
    TickDone => FmtRatesCalls = 1

\* C18 (amended): fmt_rates is called once for each send of the tick, every
\* time on the one snapshot the tick fetched, so every recipient of a tick
\* is sent the same text; a tick that ran to its end has called it as many
\* times as chats were due, hourly and daily counted apart.
C18_RenderedOncePerSend ==
    /\ \A i \in 1..Len(outbox) : outbox[i].text = fmt_rates(rates)
    /\ \A i, j \in 1..Len(outbox) : outbox[i].text = outbox[j].text
    /\ TickDone =>
          FmtRatesCalls = Cardinality(DueHourly)
                            + Cardinality(DailyChats(table, StrftimeHM(now_utc)))

\* A tick with three sends, to two chats, is over; time went by between
\* the fetch and the end of the tick.
C18_Witness ==
    /\ TickDone
    /\ FmtRatesCalls = 3
    /\ Cardinality({outbox[i].chat_id : i \in 1..Len(outbox)}) = 2
    /\ StrftimeHM(clock) # StrftimeHM(rates.ts)

\* the number of copies of row r in tbl
Copies(tbl, r) == IF r \in DOMAIN tbl THEN tbl[r] ELSE 0

\* C19: the commit of an upsert changes no row but those of its user and
\* kind: the rows of every other user and the user's rows of the other kind
\* are in the store as before; the commit of a remove_all changes no row of
\* another user; and no other step of a handler changes the store at all.
C19_OnlyOwnRowsChange ==
    /\ [][\A p \in Procs :
            UpsertCommits(p) =>
                \A r \in DOMAIN table \cup DOMAIN table' :
                    (r.user_id # sess[p].user_id \/ r.kind # sess[p].kind)
                        => Copies(table', r) = Copies(table, r)]_vars
    /\ [][\A p \in Procs :
            RemoveAllReturns(p) =>
                \A r \in DOMAIN table \cup DOMAIN table' :
                    r.user_id # sess[p].user_id
                        => Copies(table', r) = Copies(table, r)]_vars
    /\ [][(\A p \in Procs : ~UpsertCommits(p) /\ ~RemoveAllReturns(p))
            => table' = table]_vars

\* A user holds an hourly and a daily subscription and so does the other
\* user; an upsert of the first user's daily subscription, to another chat
\* and time, has committed.
C19_Witness ==
    \E p \in Procs :
        /\ sess[p].pc = "done" /\ sess[p].op = "add" /\ sess[p].error = "none"
        /\ sess[p].kind = "daily"
        /\ Row(sess[p].user_id, sess[p].chat_id, "daily", sess[p].daily_time)
              \in DOMAIN table
        /\ \A u \in Users, k \in Kinds : CountKind(table, u, k) = 1
        /\ \E r \in DOMAIN table :
              /\ r.user_id = sess[p].user_id /\ r.kind = "hourly"
              /\ r.chat_id # sess[p].chat_id

\* the chats of tbl all of whose subscriptions are user u's
OnlyChatsOf(tbl, u) ==
    {c \in ChatsOf(tbl) : \A r \in DOMAIN tbl : r.chat_id = c => r.user_id = u}

\* C20: when remove_all_subs has returned, the chats that were subscribed by
\* that user alone are in the store no more; and a tick sends only to chats
\* that held a subscription in the store at its start or got one since
\* through an upsert: so a tick that starts after the removal sends nothing
\* to such a chat until one subscribes it again.
C20_NoSendAfterRemoveAll ==
    /\ [](\A i \in 1..Len(outbox) : outbox[i].chat_id \in seen)
    /\ [][\A p \in Procs :
            RemoveAllReturns(p) =>
                OnlyChatsOf(table, sess[p].user_id) \cap ChatsOf(table') = {}]_vars
    /\ [][IF npc' = "fetch" /\ npc # "fetch"
          THEN seen' = ChatsOf(table)
          ELSE \/ seen' = seen
               \/ \E p \in Procs :
                     UpsertCommits(p) /\ seen' = seen \cup {sess[p].chat_id}]_vars

\* A remove_all_subs that deleted a subscription has returned; the tick at
\* a whole hour that started after it found no chat in the store, no
\* upsert came since, and it has ended without a send.
C20_Witness ==
    /\ sess[1].pc = "done" /\ sess[1].op = "remove" /\ sess[1].error = "none"
    /\ sess[1].rowcount >= 1
    /\ prev_utc >= 0
    /\ TickDone /\ MinuteOf(now_utc) = 0
    /\ seen = {}
    /\ outbox = <<>>

=============================================================================
